---- MODULE Spec2Model ----
(***************************************************************************)
(* TaskFlow API (src/main.py): the request handlers that take a task id or *)
(* a payload (get_task, create_task, update_task, delete_task) run         *)
(* concurrently against one MongoDB collection.  Every "await" on the      *)
(* collection is a suspension point: a handler that reads the clock or     *)
(* makes two store calls is one action for its code up to the first store  *)
(* call and one action per store call, each with the code that follows the *)
(* call; a handler with one store call and no clock read is one action.    *)
(* root and get_tasks take no input and write nothing; they are left out.  *)
(***************************************************************************)
EXTENDS Integers, Sequences, FiniteSets, TLC

\* ---------------------------------------------------------------- bounds
\* Number of requests the service receives in one behaviour.
MaxReqs == 2
\* Last value of the wall clock (in clock ticks).
MaxClock == 2
\* Clock ticks per second (the real clock has 10^6 microseconds per second).
Resolution == 2
\* Number of hex digits of an ObjectId string (24 in bson).
OidLen == 1
\* The first ObjectId the driver generates.
FirstOid == 10

Reqs == 1..MaxReqs

\* ------------------------------------------------------------ Python values
\* Python's None as the value of a field.
None == "None"
\* Python's None as the result of find_one: no document.
NoDoc == [k \in {} |-> None]
\* The empty dict.
EmptyDict == [k \in {} |-> None]

\* ---------------------------------------------------------------- ObjectId
HexDigits == <<"0", "1", "2", "3", "4", "5", "6", "7",
               "8", "9", "a", "b", "c", "d", "e", "f">>

Lower(c) ==
  CASE c = "A" -> "a" [] c = "B" -> "b" [] c = "C" -> "c"
    [] c = "D" -> "d" [] c = "E" -> "e" [] c = "F" -> "f"
    [] OTHER -> c

Upper(c) ==
  CASE c = "a" -> "A" [] c = "b" -> "B" [] c = "c" -> "C"
    [] c = "d" -> "D" [] c = "e" -> "E" [] c = "f" -> "F"
    [] OTHER -> c

\* The value of a hex digit, 16 for a character that is none.
HexVal(c) ==
  IF \E i \in 1..16 : HexDigits[i] = Lower(c)
  THEN (CHOOSE i \in 1..16 : HexDigits[i] = Lower(c)) - 1
  ELSE 16

RECURSIVE Pow16(_)
Pow16(n) == IF n = 0 THEN 1 ELSE 16 * Pow16(n - 1)

\* Variant of is_valid: the length alone is checked.
is_valid_len(s) == Len(s) = OidLen

\* ObjectId.is_valid(task_id) for a str: OidLen hex digits, either case.

is_valid(s) == Len(s) = OidLen /\ \A i \in 1..Len(s) : HexVal(s[i]) < 16

\* ObjectId(task_id): the bytes the hex string denotes, as a number.
RECURSIVE ObjectId(_)
ObjectId(s) ==
  IF s = <<>> THEN 0
  ELSE 16 * ObjectId(SubSeq(s, 1, Len(s) - 1)) + HexVal(s[Len(s)])

\* str(oid): OidLen lower-case hex digits.
str(o) == [i \in 1..OidLen |-> HexDigits[((o \div Pow16(OidLen - i)) % 16) + 1]]

\* The n-th ObjectId generated by the driver: a counter, never repeated.
GenOid(n) == (FirstOid + n) % Pow16(OidLen)

\* -------------------------------------------------------------- timestamps
\* datetime.isoformat(): the fraction is printed only when it is not zero.
isoformat(t) ==
  IF t % Resolution = 0 THEN <<t \div Resolution>>
  ELSE <<t \div Resolution, t % Resolution>>

\* --------------------------------------------------------------- dicts
Get(d, k, default) == IF k \in DOMAIN d THEN d[k] ELSE default

\* {"$set": upd} applied to a document: the keys of upd are overwritten (or
\* added), every other key keeps its value.
Merge(doc, upd) ==
  [k \in DOMAIN doc \cup DOMAIN upd |-> IF k \in DOMAIN upd THEN upd[k] ELSE doc[k]]

\* ----------------------------------------------------- pydantic models
\* TaskCreate(**body): the validated payload with the defaults of TaskBase.
TaskCreate(p) ==
  [title       |-> p.title,
   description |-> Get(p, "description", None),
   deadline    |-> Get(p, "deadline", None),
   status      |-> Get(p, "status", "not-done")]

\* Variant of UpdateDict: null fields are kept.
UpdateDictKeepNone(p) == p

\* {k: v for k, v in task_update.dict(exclude_unset=True).items()
\*  if v is not None}; p holds exactly the fields the request body sets.
UpdateDict(p) == [k \in {f \in DOMAIN p : p[f] # None} |-> p[k]]

\* Variant of IsEmptyDict: "not task_update"; a pydantic model, unlike a
\* dict, is never falsy.
IsEmptyModel(d) == FALSE

\* "not update_dict": the dict is empty.
IsEmptyDict(d) == DOMAIN d = {}

\* task_helper(task): the external representation of a stored document.
task_helper(task) ==
  [_id          |-> str(task._id),
   title        |-> task.title,
   description  |-> Get(task, "description", None),
   deadline     |-> Get(task, "deadline", None),
   status       |-> task.status,
   created_at   |-> task.created_at,
   last_updated |-> task.last_updated]

\* ------------------------------------------------ the tasks collection
\* A store is a function from the ObjectIds present to their documents.
find_one(st, o) == IF o \in DOMAIN st THEN st[o] ELSE NoDoc

insert_one(st, o, doc) ==
  [x \in DOMAIN st \cup {o} |->
     IF x = o THEN Merge(doc, [_id |-> o]) ELSE st[x]]

\* Variant of update_one: upsert=True.
UpdateOneUpsert(st, o, upd) ==
  [x \in DOMAIN st \cup {o} |->
     IF x = o THEN Merge(IF o \in DOMAIN st THEN st[o] ELSE [_id |-> o], upd)
     ELSE st[x]]

\* update_one(filter, {"$set": upd}) without upsert: the stored document
\* is merged when there is one, and nothing happens otherwise.
update_one(st, o, upd) ==
  IF o \in DOMAIN st THEN [st EXCEPT ![o] = Merge(@, upd)] ELSE st

matched_count(st, o) == IF o \in DOMAIN st THEN 1 ELSE 0

\* Variant of delete_one: the document is reported deleted and kept.
DeleteOneKeep(st, o) == st

delete_one(st, o) == [x \in DOMAIN st \ {o} |-> st[x]]

deleted_count(st, o) == IF o \in DOMAIN st THEN 1 ELSE 0

\* ---------------------------------------------------------- the requests
\* The ids of the requests: the two ObjectIds a behaviour can hold, the
\* first of them in upper case, and two malformed strings (a character
\* that is no hex digit, one digit too many).
TaskIdInputs ==
  LET s0 == str(GenOid(0)) IN
    { s0, str(GenOid(1)), [i \in 1..OidLen |-> Upper(s0[i])],
      [s0 EXCEPT ![OidLen] = "g"], Append(s0, "0") }

\* Validated creation payloads: the fields the body sets.
CreatePayloads ==
  { [title |-> "t1"],
    [title |-> "t2", description |-> "d1", status |-> "done"] }

\* Validated update payloads: the fields the body sets, None when the body
\* gives null.
UpdatePayloads ==
  { EmptyDict,
    [description |-> None],
    [deadline |-> "dl", status |-> "done"],
    [title |-> "t3", description |-> None] }

\* The document a database holds before the service starts.
OldTask ==
  [_id |-> GenOid(0), title |-> "t0", description |-> "d0", deadline |-> None,
   status |-> "pending", created_at |-> isoformat(0), last_updated |-> isoformat(0)]

\* HTTP responses.
NoResp == [code |-> 0, body |-> EmptyDict]
HTTPException(status_code, detail) == [code |-> status_code, body |-> [detail |-> detail]]
\* The response of a handler that raised anything but an HTTPException.
ServerError == [code |-> 500, body |-> [detail |-> "Internal Server Error"]]

VARIABLES
  store,        \* tasks_collection
  nextOid,      \* number of ObjectIds generated so far
  clock,        \* datetime.utcnow(), in ticks
  pc,           \* where each request is
  kind,         \* the handler of each request
  task_id,      \* path parameter of get / update / delete
  payload,      \* validated body of create / update
  task_dict,    \* create_task's local
  update_dict,  \* update_task's local
  result,       \* create_task's result.inserted_id
  resp,         \* the response sent
  accesses,     \* number of store calls each request has made
  ver,          \* history: number of writes that took effect on each id
  seen          \* history: ver of a request's id at its last read

vars == <<store, nextOid, clock, pc, kind, task_id, payload, task_dict,
          update_dict, result, resp, accesses, ver, seen>>

\* The service starts in front of a database that holds one task, stored by
\* an earlier run; no request has arrived.
Init ==
  /\ store = [o \in {GenOid(0)} |-> OldTask]
  /\ nextOid = 1
  /\ ver = [o \in {GenOid(0)} |-> 1]
  /\ clock = 0
  /\ pc = [r \in Reqs |-> "idle"]
  /\ kind = [r \in Reqs |-> "none"]
  /\ task_id = [r \in Reqs |-> <<>>]
  /\ payload = [r \in Reqs |-> EmptyDict]
  /\ task_dict = [r \in Reqs |-> EmptyDict]
  /\ update_dict = [r \in Reqs |-> EmptyDict]
  /\ result = [r \in Reqs |-> 0]
  /\ resp = [r \in Reqs |-> NoResp]
  /\ accesses = [r \in Reqs |-> 0]
  /\ seen = [r \in Reqs |-> 0]

\* Requests are numbered in the order they arrive.
Arrives(r) == pc[r] = "idle" /\ (IF r = 1 THEN TRUE ELSE pc[r - 1] # "idle")

\* The handler returns or raises: its locals are gone.
Return(r, response) ==
  /\ pc' = [pc EXCEPT ![r] = "done"]
  /\ resp' = [resp EXCEPT ![r] = response]
  /\ task_dict' = [task_dict EXCEPT ![r] = EmptyDict]
  /\ update_dict' = [update_dict EXCEPT ![r] = EmptyDict]
  /\ result' = [result EXCEPT ![r] = 0]

\* The handler suspends at its next store call.
Await(r, label) ==
  /\ pc' = [pc EXCEPT ![r] = label]
  /\ UNCHANGED resp

\* One store call of request r.
Access(r) == accesses' = [accesses EXCEPT ![r] = @ + 1]

\* Request r reads the document of ObjectId o, for its response.
Read(r, o) == seen' = [seen EXCEPT ![r] = Get(ver, o, 0)]

\* A write took effect on ObjectId o.
Written(o) ==
  ver' = [x \in DOMAIN ver \cup {o} |-> IF x = o THEN Get(ver, o, 0) + 1 ELSE ver[x]]

\* The clock advances.
Tick ==
  /\ clock < MaxClock
  /\ clock' = clock + 1
  /\ UNCHANGED <<store, nextOid, pc, kind, task_id, payload, task_dict,
                 update_dict, result, resp, accesses, ver, seen>>

\* ------------------------------------------------- GET /tasks/{task_id}
\* get_task (lines 113-119).  Nothing before its one store call reads or
\* writes shared state, so the handler is one step, taken when find_one
\* takes effect.
get_task(r) ==
  /\ Arrives(r)
  /\ UNCHANGED <<store, nextOid, clock, payload, ver>>
  /\ \E tid \in TaskIdInputs :
       /\ kind' = [kind EXCEPT ![r] = "get"]
       /\ task_id' = [task_id EXCEPT ![r] = tid]
       /\ IF ~is_valid(tid)
          THEN /\ Return(r, HTTPException(400, "Invalid task ID format"))
               /\ UNCHANGED <<accesses, seen>>
          ELSE LET task == find_one(store, ObjectId(tid)) IN
                 /\ Access(r)
                 /\ Read(r, ObjectId(tid))
                 /\ IF task # NoDoc
                    THEN Return(r, [code |-> 200, body |-> task_helper(task)])
                    ELSE Return(r, HTTPException(404, "Task not found"))

\* ------------------------------------------------------------ POST /tasks
\* create_task up to its first await (lines 124-135).
StartCreate(r) ==
  /\ Arrives(r)
  /\ \E p \in CreatePayloads :
       LET task == TaskCreate(p)
           now == isoformat(clock)
       IN /\ kind' = [kind EXCEPT ![r] = "create"]
          /\ payload' = [payload EXCEPT ![r] = p]
          /\ task_dict' = [task_dict EXCEPT ![r] =
                 [title        |-> task.title,
                  description  |-> task.description,
                  deadline     |-> task.deadline,
                  status       |-> task.status,
                  created_at   |-> now,
                  last_updated |-> now]]
  /\ Await(r, "insert_one")
  /\ UNCHANGED <<store, nextOid, clock, task_id, update_dict, result,
                 accesses, ver, seen>>

\* insert_one takes effect; the handler resumes up to find_one (135-136).
InsertOne(r) ==
  /\ pc[r] = "insert_one"
  /\ LET inserted_id == GenOid(nextOid) IN
       /\ store' = insert_one(store, inserted_id, task_dict[r])
       /\ result' = [result EXCEPT ![r] = inserted_id]
       /\ Written(inserted_id)
       /\ Access(r)
  /\ nextOid' = nextOid + 1
  /\ Await(r, "find_created")
  /\ UNCHANGED <<clock, kind, task_id, payload, task_dict, update_dict, seen>>

\* Variant of FindCreated: create_task echoes the fields the body sets (with
\* the id and the timestamps) instead of serializing the stored document.
CreateEchoesPayload(r) ==
  /\ pc[r] = "find_created"
  /\ Return(r, [code |-> 201,
                body |-> [_id          |-> str(result[r]),
                          title        |-> payload[r].title,
                          description  |-> Get(payload[r], "description", None),
                          deadline     |-> Get(payload[r], "deadline", None),
                          status       |-> Get(payload[r], "status", None),
                          created_at   |-> task_dict[r].created_at,
                          last_updated |-> task_dict[r].last_updated]])
  /\ Access(r)
  /\ Read(r, result[r])
  /\ UNCHANGED ver
  /\ UNCHANGED <<store, nextOid, clock, kind, task_id, payload>>

\* The read-back and the rest of create_task (lines 136-138): task_helper
\* subscripts None when the document is gone, a TypeError.
FindCreated(r) ==
  /\ pc[r] = "find_created"
  /\ LET created_task == find_one(store, result[r]) IN
       IF created_task = NoDoc
       THEN Return(r, ServerError)
       ELSE Return(r, [code |-> 201, body |-> task_helper(created_task)])
  /\ Access(r)
  /\ Read(r, result[r])
  /\ UNCHANGED ver
  /\ UNCHANGED <<store, nextOid, clock, kind, task_id, payload>>

\* -------------------------------------------------- PUT /tasks/{task_id}
\* update_task up to its first await (lines 143-158).
StartUpdate(r) ==
  /\ Arrives(r)
  /\ \E tid \in TaskIdInputs, p \in UpdatePayloads :
       /\ kind' = [kind EXCEPT ![r] = "update"]
       /\ task_id' = [task_id EXCEPT ![r] = tid]
       /\ payload' = [payload EXCEPT ![r] = p]
       /\ IF ~is_valid(tid)
          THEN Return(r, HTTPException(400, "Invalid task ID format"))
          ELSE IF IsEmptyDict(UpdateDict(p))
          THEN Return(r, HTTPException(400, "No fields to update"))
          ELSE /\ update_dict' = [update_dict EXCEPT ![r] =
                     Merge(UpdateDict(p), [last_updated |-> isoformat(clock)])]
               /\ Await(r, "update_one")
               /\ UNCHANGED <<task_dict, result>>
  /\ UNCHANGED <<store, nextOid, clock, accesses, ver, seen>>

\* update_one takes effect; the handler resumes up to find_one (155-163).
UpdateOne(r) ==
  /\ pc[r] = "update_one"
  /\ LET o == ObjectId(task_id[r]) IN
       /\ store' = update_one(store, o, update_dict[r])
       /\ IF store' # store THEN Written(o) ELSE UNCHANGED ver
       /\ Access(r)
       /\ IF matched_count(store, o) = 0
          THEN Return(r, HTTPException(404, "Task not found"))
          ELSE Await(r, "find_updated") /\ UNCHANGED <<task_dict, update_dict, result>>
  /\ UNCHANGED <<nextOid, clock, kind, task_id, payload, seen>>

\* The read-back and the rest of update_task (lines 163-164).
FindUpdated(r) ==
  /\ pc[r] = "find_updated"
  /\ LET updated_task == find_one(store, ObjectId(task_id[r])) IN
       IF updated_task = NoDoc
       THEN Return(r, ServerError)
       ELSE Return(r, [code |-> 200, body |-> task_helper(updated_task)])
  /\ Access(r)
  /\ UNCHANGED <<store, nextOid, clock, kind, task_id, payload, ver, seen>>

\* ----------------------------------------------- DELETE /tasks/{task_id}
\* delete_task (lines 169-177), one step for the same reason as get_task.
delete_task(r) ==
  /\ Arrives(r)
  /\ \E tid \in TaskIdInputs :
       /\ kind' = [kind EXCEPT ![r] = "delete"]
       /\ task_id' = [task_id EXCEPT ![r] = tid]
       /\ IF ~is_valid(tid)
          THEN /\ Return(r, HTTPException(400, "Invalid task ID format"))
               /\ UNCHANGED <<store, accesses, ver>>
          ELSE LET o == ObjectId(tid) IN
                 /\ store' = delete_one(store, o)
                 /\ IF deleted_count(store, o) = 0 THEN UNCHANGED ver ELSE Written(o)
                 /\ Access(r)
                 /\ IF deleted_count(store, o) = 0
                    THEN Return(r, HTTPException(404, "Task not found"))
                    ELSE Return(r, [code |-> 200,
                                    body |-> [message |-> "Task deleted successfully",
                                              id |-> tid]])
  /\ UNCHANGED <<nextOid, clock, payload, seen>>

Next ==
  \/ Tick
  \/ \E r \in Reqs :
       \/ get_task(r)
       \/ StartCreate(r)
       \/ InsertOne(r)
       \/ FindCreated(r)
       \/ StartUpdate(r)
       \/ UpdateOne(r)
       \/ FindUpdated(r)
       \/ delete_task(r)

Spec == Init /\ [][Next]_vars

\* The service receiving updates only.
NextUpdates ==
  \/ Tick
  \/ \E r \in Reqs :
       \/ StartUpdate(r)
       \/ UpdateOne(r)
       \/ FindUpdated(r)

SpecUpdates == Init /\ [][NextUpdates]_vars

\* ======================================================================
\* Properties
\* ======================================================================

\* Order of the timestamp strings (str <= str): lexicographic, a proper
\* prefix is smaller.
RECURSIVE StrLeq(_, _)
StrLeq(a, b) ==
  IF a = <<>> THEN TRUE
  ELSE IF b = <<>> THEN FALSE
  ELSE IF Head(a) < Head(b) THEN TRUE
  ELSE IF Head(a) > Head(b) THEN FALSE
  ELSE StrLeq(Tail(a), Tail(b))

\* A structurally valid id: OidLen characters, each a hex digit.
WellFormed(s) ==
  /\ Len(s) = OidLen
  /\ \A i \in 1..Len(s) : \E j \in 1..16 : HexDigits[j] = Lower(s[i])

\* Request r takes a step.
Steps(r) == pc'[r] # pc[r]

\* Request r makes its first store call in this step.
FirstCall(r) == accesses[r] = 0 /\ accesses'[r] = 1

InvalidIdResponse == [code |-> 400, body |-> [detail |-> "Invalid task ID format"]]
NoFieldsResponse == [code |-> 400, body |-> [detail |-> "No fields to update"]]
NotFoundResponse == [code |-> 404, body |-> [detail |-> "Task not found"]]

\* C1: every 201 response of create has created_at = last_updated and the
\* status of the payload, "not-done" when the payload sets none.
C1_CreateReturnsFreshTask ==
  \A r \in Reqs :
    (kind[r] = "create" /\ pc[r] = "done" /\ resp[r].code = 201) =>
      /\ resp[r].body.created_at = resp[r].body.last_updated
      /\ resp[r].body.status = Get(payload[r], "status", "not-done")

\* C2: the stored last_updated of a task never decreases.
C2_LastUpdatedNeverDecreases ==
  [][\A o \in DOMAIN store \cap DOMAIN store' :
       StrLeq(store[o].last_updated, store'[o].last_updated)]_vars

\* C3: every stored task has created_at <= last_updated.
C3_CreatedBeforeUpdated ==
  \A o \in DOMAIN store : StrLeq(store[o].created_at, store[o].last_updated)

\* The frame of a step of update request r that changes the store (no other
\* request takes the step): no task is added or removed, no
\* other task changes, and in the task of r's id only last_updated and the
\* fields the payload gives a non-null value change, the latter to the
\* values of the payload.
UpdateFrame(r) ==
  LET o == ObjectId(task_id'[r])
      p == payload'[r]
      Supplied == {f \in DOMAIN p : p[f] # None}
  IN /\ DOMAIN store' = DOMAIN store
     /\ \A x \in DOMAIN store \ {o} : store'[x] = store[x]
     /\ o \in DOMAIN store =>
          /\ DOMAIN store'[o] = DOMAIN store[o]
          /\ \A f \in DOMAIN store[o] \ (Supplied \cup {"last_updated"}) :
               store'[o][f] = store[o][f]
          /\ store'[o]._id = store[o]._id
          /\ store'[o].created_at = store[o].created_at
          /\ store'[o] # store[o] => \A f \in Supplied : store'[o][f] = p[f]

\* C4: an update changes, in the targeted task, only last_updated and the
\* fields its payload supplies with a non-null value; omitted and null
\* fields, id and created_at keep their values, and no other task changes.
C4_UpdateFrame ==
  [][\A r \in Reqs :
       (Steps(r) /\ kind'[r] = "update" /\ store' # store) => UpdateFrame(r)]_vars

\* An update whose payload has a null field and a non-null one has returned
\* 200 with the description kept, while the store holds a second task.
C4_Witness ==
  \E r \in Reqs :
    /\ kind[r] = "update" /\ pc[r] = "done" /\ resp[r].code = 200
    /\ \E f \in DOMAIN payload[r] : payload[r][f] = None
    /\ \E f \in DOMAIN payload[r] : payload[r][f] # None
    /\ resp[r].body.description # None
    /\ Cardinality(DOMAIN store) = 2

C6_NotFoundLeavesStore ==
  [][\A r \in Reqs :
       (Steps(r) /\ FirstCall(r) /\ kind'[r] \in {"get", "update", "delete"}
          /\ ObjectId(task_id'[r]) \notin DOMAIN store) =>
         /\ pc'[r] = "done"
         /\ resp'[r] = NotFoundResponse
         /\ store' = store]_vars

\* An update and a delete of ids the store does not hold have been answered
\* 404, next to a task that is stored.
C6_Witness ==
  \E r1, r2 \in Reqs :
    /\ kind[r1] = "update" /\ resp[r1] = NotFoundResponse /\ accesses[r1] = 1
    /\ kind[r2] = "delete" /\ resp[r2] = NotFoundResponse /\ accesses[r2] = 1
    /\ store # EmptyDict

\* C7: an update of a well-formed id whose payload sets no field, or only
\* null fields, ends with 400 "No fields to update" in its first step,
\* without a store call and with the store unchanged.
C7_NoFieldsNoMutation ==
  [][\A r \in Reqs :
       (Steps(r) /\ kind'[r] = "update" /\ WellFormed(task_id'[r])
          /\ \A f \in DOMAIN payload'[r] : payload'[r][f] = None) =>
         /\ pc'[r] = "done"
         /\ resp'[r] = NoFieldsResponse
         /\ accesses'[r] = 0
         /\ store' = store]_vars

\* An update of a stored task with the payload {"description": null} and an
\* update of an unknown id with the empty payload have been answered 400.
C7_Witness ==
  \E r1, r2 \in Reqs :
    /\ kind[r1] = "update" /\ payload[r1] = [description |-> None]
    /\ ObjectId(task_id[r1]) \in DOMAIN store /\ resp[r1] = NoFieldsResponse
    /\ kind[r2] = "update" /\ payload[r2] = EmptyDict /\ pc[r2] = "done"
    /\ WellFormed(task_id[r2]) /\ ObjectId(task_id[r2]) \notin DOMAIN store
    /\ resp[r2] = NoFieldsResponse

\* The deletes of ObjectId o that were answered 200.
Deleted(o) ==
  {r \in Reqs : /\ kind[r] = "delete" /\ pc[r] = "done" /\ resp[r].code = 200
                /\ ObjectId(task_id[r]) = o}

\* C8: a delete of a stored task returns 200 with {message, id} and removes
\* the task, a delete of an id that is not stored returns 404; at most one
\* delete of an id is ever answered 200, and the id is stored no more.
C8_DeleteOnce ==
  /\ [](\A r \in Reqs :
          (kind[r] = "delete" /\ pc[r] = "done" /\ resp[r].code = 200) =>
            /\ Cardinality(Deleted(ObjectId(task_id[r]))) = 1
            /\ ObjectId(task_id[r]) \notin DOMAIN store)
  /\ [][\A r \in Reqs :
          (Steps(r) /\ kind'[r] = "delete" /\ WellFormed(task_id'[r])) =>
            LET o == ObjectId(task_id'[r]) IN
              /\ pc'[r] = "done"
              /\ o \notin DOMAIN store'
              /\ IF o \in DOMAIN store
                 THEN resp'[r] = [code |-> 200,
                                  body |-> [message |-> "Task deleted successfully",
                                            id |-> task_id'[r]]]
                 ELSE resp'[r] = NotFoundResponse /\ store' = store]_vars

\* Two deletes of the same id have returned, one 200 and the other 404.
C8_Witness ==
  \E r1, r2 \in Reqs :
    /\ kind[r1] = "delete" /\ kind[r2] = "delete"
    /\ pc[r1] = "done" /\ pc[r2] = "done"
    /\ WellFormed(task_id[r1]) /\ WellFormed(task_id[r2])
    /\ ObjectId(task_id[r1]) = ObjectId(task_id[r2])
    /\ resp[r1].code = 200 /\ resp[r2].code = 404

\* C9: a get by the id of a 201 response, with no write taking effect on
\* that id between the create's read-back and the get's read, returns 200
\* with the representation of the 201 response.
C9_RoundTrip ==
  \A c, g \in Reqs :
    (/\ kind[c] = "create" /\ pc[c] = "done" /\ resp[c].code = 201
     /\ kind[g] = "get" /\ pc[g] = "done"
     /\ task_id[g] = resp[c].body._id
     /\ seen[g] = seen[c]) =>
      /\ resp[g].code = 200
      /\ resp[g].body = resp[c].body

\* A create that set no status has returned 201, and a get by the returned
\* id has returned.
C9_Witness ==
  \E c, g \in Reqs :
    /\ kind[c] = "create" /\ pc[c] = "done" /\ resp[c].code = 201
    /\ "status" \notin DOMAIN payload[c]
    /\ kind[g] = "get" /\ pc[g] = "done"
    /\ task_id[g] = resp[c].body._id
    /\ seen[g] = seen[c]

\* C10: a create whose insert succeeded returns 201, an update whose write
\* matched a task returns 200, and no request ends in an unhandled error.
C10_StructuredOutcome ==
  \A r \in Reqs :
    pc[r] = "done" =>
      /\ resp[r].code # 500
      /\ kind[r] = "create" => resp[r].code = 201
      /\ (kind[r] = "update" /\ accesses[r] = 2) => resp[r].code = 200

====
